---- MODULE Spec2Model ----
(***************************************************************************)
(* Overkill: the Explore -> Engineer -> Crystallize pipeline               *)
(* (src/overkill/main.py, src/overkill/core/*.py) running as a worker of   *)
(* the Textual display surface (src/overkill/ui/textual_ui.py).            *)
(*                                                                         *)
(* Text is modelled as a tuple of one-character strings, so that           *)
(* str.lower(), "in" (substring) and "in [...]" (list membership) are      *)
(* computed, not assumed.                                                  *)
(*                                                                         *)
(* Both the surface loop and the pipeline task run on one cooperative      *)
(* scheduler: a surface handler runs only while the pipeline task is       *)
(* suspended at an await (SuspendedPcs), not yet started, or finished.     *)
(* The pipeline's code between two awaits is cut into several actions,     *)
(* joined by pc values at which no surface handler is enabled.             *)
(***************************************************************************)
EXTENDS Integers, Sequences, FiniteSets, TLC

VARIABLES
    \* OverkillApp (the display surface)
    mounted, running, pipeline_func, input_event, input_value, evSet,
    current_phase, agent_status, activity_log, posted, messages_log,
    \* tasks suspended in prompt_user: the Event object each one awaits
    cwait, cret,
    \* run_pipeline (main.py) and the three phase objects; exc is what the
    \* try statement of run_pipeline saw raised: "none", "error" (an
    \* Exception) or "cancelled" (CancelledError)
    pc, args, demo_responses, cleanup, tmpExists, exc, ret,
    analysis, session, spec_path,
    conversation_history, demo_response_index, queryOutstanding,
    \* the environment's record of what happened (never read by the program)
    trace, inputs, sent, phaseCalls, failedIn, cancelledAt, crystallizeCalls,
    agentTurns, userQuit, apiCalls,
    \* the exception handling around the pipeline: handled is set once the
    \* except clause of run_pipeline (main.py) has caught the exception;
    \* workerExc is what the worker OverkillApp.run_pipeline saw leave its
    \* await of the pipeline function: "none", "error" or "cancelled"
    handled, workerExc,
    \* Crystallizer: the prompt crystallize() built, the file at the output
    \* path ("none" or "written": the agent writes it with its Write tool
    \* while the session runs), and the tool invocations received
    crystallize_prompt, artifact, toolUses,
    \* one stream of tool events as handed to a RepoExplorer and to a
    \* Crystallizer, and the activity lines each of them logged for it
    toolEvents, exploreLog, crystalLog

lifeVars == <<mounted, running, pipeline_func>>
inputVars == <<input_event, input_value, evSet>>
displayVars == <<current_phase, agent_status, activity_log>>
msgVars == <<posted, messages_log>>
surfaceVars == <<lifeVars, inputVars, displayVars, msgVars>>
taskVars == <<cwait, cret>>
cfgVars == <<args, demo_responses>>
resultVars == <<analysis, session, spec_path>>
engVars == <<conversation_history, demo_response_index, queryOutstanding>>
wrapVars == <<handled, workerExc>>
cryVars == <<crystallize_prompt, artifact, toolUses>>
harnessVars == <<toolEvents, exploreLog, crystalLog>>
pipeVars == <<pc, cfgVars, wrapVars, cryVars, cleanup, tmpExists, exc, ret,
              resultVars, engVars>>
ghostVars == <<trace, inputs, sent, phaseCalls, failedIn, cancelledAt,
               crystallizeCalls, agentTurns, userQuit, apiCalls>>
vars == <<surfaceVars, taskVars, pipeVars, ghostVars, harnessVars>>

----------------------------------------------------------------------------
(* Bounds of the model *)

\* Gateway turns answered in one interactive Engineer session.
MaxTurns == 2
\* Longest canned-response list tried in demo mode.
MaxDemoLen == 3
\* Calls of the adapter made from outside the pipeline, when the surface is
\* driven alone.
MaxApiCalls == 2
\* Tool events handed to the two phase objects when their logging is
\* compared.
MaxToolEvents == 2
\* Tool invocations received in one Crystallize session.
MaxToolUses == 1

----------------------------------------------------------------------------
(* Text *)

EMPTY == <<>>

UpperChars == <<"A","B","C","D","E","F","G","H","I","J","K","L","M",
                "N","O","P","Q","R","S","T","U","V","W","X","Y","Z">>
LowerChars == <<"a","b","c","d","e","f","g","h","i","j","k","l","m",
                "n","o","p","q","r","s","t","u","v","w","x","y","z">>

LowerChar(c) ==
    IF \E i \in DOMAIN UpperChars : UpperChars[i] = c
    THEN LowerChars[CHOOSE i \in DOMAIN UpperChars : UpperChars[i] = c]
    ELSE c

\* str.lower()
Lower(s) == [i \in 1..Len(s) |-> LowerChar(s[i])]

\* sub in s
Contains(sub, s) ==
    \E i \in 0..(Len(s) - Len(sub)) : SubSeq(s, i + 1, i + Len(sub)) = sub

T_done == <<"d","o","n","e">>
T_exit == <<"e","x","i","t">>
T_quit == <<"q","u","i","t">>
T_finish == <<"f","i","n","i","s","h">>
T_yes == <<"y","e","s">>
T_y == <<"y">>
T_no == <<"n","o">>
T_SPEC_READY == <<"S","P","E","C","_","R","E","A","D","Y">>
T_ready_to_generate ==
    <<"r","e","a","d","y"," ","t","o"," ","g","e","n","e","r","a","t","e">>
T_confirm_prompt ==
    <<"R","e","a","d","y"," ","t","o"," ","g","e","n","e","r","a","t","e",
      " ","S","P","E","C",".","m","d","?"," ","(","y","e","s","/","n","o",
      ")">>
T_finish_the_session ==
    <<"f","i","n","i","s","h"," ","t","h","e"," ","s","e","s","s","i","o","n">>

----------------------------------------------------------------------------
(* Inputs tried *)

A_plain == <<"W","h","y","?">>
A_marker == <<"o","k"," ">> \o T_SPEC_READY
A_ready == <<"R","e","a","d","y"," ","T","o"," ","G","e","n","e","r","a","t","e","!">>

\* What one Engineer turn of the agent may accumulate.
AgentTexts == {EMPTY, A_plain, A_marker, A_ready}

\* What the Explore turn of the agent may accumulate.
ExploreTexts == {EMPTY, <<"p","y">>}

\* Lines the human may submit.
UserLines == {EMPTY, T_no, <<"Y","e","s">>, <<"D","o","n","e">>}

DemoLetters == <<"a","b","c","d","e","f","g","h">>
DemoText(i) == <<"m", DemoLetters[i]>>

\* Canned lists: n plain entries, or n plain entries and then "done" (the
\* shape of the list of VibeEngineer.__init__, which has four plain entries).
DemoLists ==
    { [i \in 1..n |-> DemoText(i)] : n \in 0..MaxDemoLen }
    \cup { [i \in 1..n |-> IF i = n THEN T_done ELSE DemoText(i)] : n \in 1..MaxDemoLen }

Cwd == <<"cwd">>
OutputArgs == { [abs |-> FALSE, parts |-> <<"SPEC.md">>],
                [abs |-> TRUE, parts |-> <<"out", "S.md">>] }

\* Path(p).resolve()
Resolve(p) == IF p.abs THEN p ELSE [abs |-> TRUE, parts |-> Cwd \o p.parts]

FeatureRequest == <<"f","e","a","t">>

Tasks == {"pipeline", "aux"}
NoEvent == 0
EventIds == 1..(Cardinality(Tasks) + 1)

PhaseOrder == <<"explore", "engineer", "crystallize">>

----------------------------------------------------------------------------
(* The display surface: OverkillApp *)

\* update_phase: query_one raises NoMatches before the widgets exist.
PhaseAfter(phase) == IF mounted THEN phase ELSE current_phase

\* update_agent_status
StatusAfter(name, status) == IF mounted THEN <<name, status>> ELSE agent_status

\* Mutant of LogAfter: the line is kept although #activity-log does not
\* exist yet.
LogAfter_Unmounted(lines) == activity_log \o lines

\* log_activity, once per line of lines
LogAfter(lines) == IF mounted THEN activity_log \o lines ELSE activity_log

\* add_message: post_message(AddMessageRequest(role, content))
Message(role, content) == [role |-> role, content |-> content]

\* asyncio.Event(): an object distinct from every Event still referenced.
FreshEvent ==
    CHOOSE e \in EventIds :
        /\ e # input_event
        /\ \A t \in Tasks : cwait[t] # e
        /\ \A f \in EventIds :
              (f # input_event /\ \A t \in Tasks : cwait[t] # f) => e <= f

\* prompt_user up to its await: arms a new Event and clears the value.
prompt_user_arm(t) ==
    /\ input_event' = FreshEvent
    /\ evSet' = [evSet EXCEPT ![FreshEvent] = FALSE]
    /\ input_value' = EMPTY
    /\ cwait' = [cwait EXCEPT ![t] = FreshEvent]

\* prompt_user after its await: the Event task t awaits has been set.
prompt_user_resume(t) ==
    /\ cwait[t] # NoEvent
    /\ evSet[cwait[t]]
    /\ input_event' = NoEvent
    /\ cwait' = [cwait EXCEPT ![t] = NoEvent]
    /\ evSet' = [evSet EXCEPT ![cwait[t]] = FALSE]   \* the Event is garbage
    /\ UNCHANGED input_value

\* Mutant of on_input_submitted: the line is stored whether a request is
\* pending or not.
on_input_submitted_AlwaysStores(value) ==
    /\ input_value' = value
    /\ evSet' = IF input_event # NoEvent
                THEN [evSet EXCEPT ![input_event] = TRUE]
                ELSE evSet
    /\ UNCHANGED input_event

\* on_input_submitted
on_input_submitted(value) ==
    IF input_event # NoEvent
    THEN /\ input_value' = value
         /\ evSet' = [evSet EXCEPT ![input_event] = TRUE]
         /\ UNCHANGED input_event
    ELSE UNCHANGED inputVars

\* Mutant of handle_add_message: the newest message is written on top.
handle_add_message_NewestFirst ==
    /\ posted # <<>>
    /\ posted' = Tail(posted)
    /\ messages_log' =
          IF mounted THEN <<Head(posted)>> \o messages_log ELSE messages_log

\* handle_add_message: the oldest posted request is written to #messages-log.
handle_add_message ==
    /\ posted # <<>>
    /\ posted' = Tail(posted)
    /\ messages_log' =
          IF mounted THEN Append(messages_log, Head(posted)) ELSE messages_log

----------------------------------------------------------------------------
(* The pipeline task: where it is *)

\* Awaits on the gateway (connect; query and receive_response).
ConnectPcs == {"explore_connect", "eng_connect", "cry_connect"}
RecvPcs == {"explore_recv", "eng_recv", "cry_recv"}
GatewayPcs == ConnectPcs \cup RecvPcs
\* asyncio.sleep(1) of demo mode, and the Event.wait() of prompt_user.
SleepPcs == {"eng_confirm_sleep", "eng_input_sleep"}
WaitPcs == {"eng_confirm_wait", "eng_input_wait"}
\* The awaits of the pipeline task.
SuspendedPcs == GatewayPcs \cup SleepPcs \cup WaitPcs
\* Mutant of PipelineYielded: prompt_user blocks the thread until a line is
\* there instead of awaiting an Event, so the surface loop does not run
\* while the pipeline waits for the human.
PipelineYielded_BlockingPrompt ==
    pc \in (SuspendedPcs \ WaitPcs) \cup {"unstarted", "start", "done"}

\* The surface loop gets control only while the pipeline task does not have it.
PipelineYielded == pc \in SuspendedPcs \cup {"unstarted", "start", "done"}
\* The scheduler runs what became ready first: an AddMessageRequest posted by
\* the pipeline task is handled by the surface loop before the event the
\* pipeline task went on to await, and before any later key press.
SurfaceIdle == posted = <<>>

PhaseOfPc(p) ==
    CASE p \in {"explore_begin", "explore_connect", "explore_recv"} -> "explore"
      [] p \in {"cry_begin", "cry_connect", "cry_recv"} -> "crystallize"
      [] p \in {"unstarted", "start", "cloning", "except", "finally", "done"} -> "none"
      [] OTHER -> "engineer"

----------------------------------------------------------------------------
(* main.py: run_pipeline, up to the first phase *)

\* Mutant of Acquire: the return of line 74 is missing, so a missing local
\* path is reported and the pipeline goes on.
Acquire_NoReturn ==
    /\ pc = "start"
    /\ \E ok \in BOOLEAN :
          IF args.repo = "url"
          THEN \* line 66, and clone_repo to its subprocess.run (lines 26-29)
               /\ tmpExists' = TRUE
               /\ activity_log' = LogAfter(<<"cloning">>)
               /\ pc' = "cloning"
               /\ UNCHANGED <<cleanup, exc, failedIn>>
          ELSE /\ IF ok
                  THEN /\ pc' = "explore_begin"
                       /\ UNCHANGED activity_log
                       /\ UNCHANGED failedIn
                  ELSE /\ activity_log' = LogAfter(<<"error">>)
                       /\ failedIn' = "acquire"
                       /\ pc' = "explore_begin"
               /\ UNCHANGED <<tmpExists, cleanup, exc>>
    /\ UNCHANGED <<lifeVars, inputVars, current_phase, agent_status, msgVars,
                   taskVars, cfgVars, cryVars, harnessVars, wrapVars, ret, resultVars, engVars,
                   trace, inputs, sent, phaseCalls, cancelledAt, userQuit, apiCalls,
                   crystallizeCalls, agentTurns>>

\* Lines 60-74, to the start of the clone or past the existence test, which
\* is answered by the environment.
Acquire ==
    /\ pc = "start"
    /\ \E ok \in BOOLEAN :
          IF args.repo = "url"
          THEN \* line 66, and clone_repo to its subprocess.run (lines 26-29)
               /\ tmpExists' = TRUE
               /\ activity_log' = LogAfter(<<"cloning">>)
               /\ pc' = "cloning"
               /\ UNCHANGED <<cleanup, exc, failedIn>>
          ELSE /\ IF ok
                  THEN /\ pc' = "explore_begin"
                       /\ UNCHANGED activity_log
                       /\ UNCHANGED failedIn
                  ELSE \* line 74: return
                       /\ activity_log' = LogAfter(<<"error">>)
                       /\ failedIn' = "acquire"
                       /\ pc' = "finally"
               /\ UNCHANGED <<tmpExists, cleanup, exc>>
    /\ UNCHANGED <<lifeVars, inputVars, current_phase, agent_status, msgVars,
                   taskVars, cfgVars, cryVars, harnessVars, wrapVars, ret, resultVars, engVars,
                   trace, inputs, sent, phaseCalls, cancelledAt, userQuit, apiCalls,
                   crystallizeCalls, agentTurns>>

\* clone_repo lines 29-37 and run_pipeline lines 67-69: subprocess.run
\* returns, with the clone or with CalledProcessError. The call is not
\* awaited: from Acquire to here the pipeline task keeps the thread.
CloneReturn ==
    /\ pc = "cloning"
    /\ \E ok \in BOOLEAN :
          IF ok
          THEN /\ cleanup' = TRUE
               /\ activity_log' = LogAfter(<<"cloned">>)
               /\ pc' = "explore_begin"
               /\ UNCHANGED <<exc, failedIn>>
          ELSE /\ exc' = "error"
               /\ failedIn' = "acquire"
               /\ pc' = "except"
               /\ UNCHANGED <<cleanup, activity_log>>
    /\ UNCHANGED <<lifeVars, inputVars, current_phase, agent_status, msgVars,
                   taskVars, cfgVars, cryVars, harnessVars, wrapVars, tmpExists, ret,
                   resultVars, engVars, trace, inputs, sent, phaseCalls,
                   cancelledAt, userQuit, apiCalls, crystallizeCalls, agentTurns>>

\* Mutant of ExceptClause: the clause logs the error and starts the pipeline
\* over.
ExceptClause_Retry ==
    /\ pc = "except"
    /\ activity_log' = LogAfter(<<"error">>)
    /\ handled' = TRUE
    /\ pc' = "start"
    /\ UNCHANGED <<lifeVars, inputVars, current_phase, agent_status, msgVars,
                   taskVars, cfgVars, cryVars, harnessVars, workerExc, cleanup, tmpExists, exc, ret,
                   resultVars, engVars, ghostVars>>

\* Mutant of ExceptClause: the clause logs the error and raises it again.
ExceptClause_Reraise ==
    /\ pc = "except"
    /\ activity_log' = LogAfter(<<"error">>)
    /\ pc' = "finally"
    /\ UNCHANGED <<lifeVars, inputVars, current_phase, agent_status, msgVars,
                   taskVars, cfgVars, cryVars, harnessVars, wrapVars, cleanup, tmpExists, exc, ret,
                   resultVars, engVars, ghostVars>>

\* Lines 92-93: except Exception as e: ui.log_activity(f"Error: {e}")
ExceptClause ==
    /\ pc = "except"
    /\ activity_log' = LogAfter(<<"error">>)
    /\ handled' = TRUE
    /\ pc' = "finally"
    /\ UNCHANGED <<lifeVars, inputVars, current_phase, agent_status, msgVars,
                   taskVars, cfgVars, cryVars, harnessVars, workerExc, cleanup, tmpExists, exc, ret,
                   resultVars, engVars, ghostVars>>

\* Mutant of Escaping: an Exception goes on to the caller although the
\* except clause caught it.
Escaping_AfterHandling ==
    IF exc = "cancelled" THEN "cancelled"
    ELSE IF exc = "error" THEN "error"
    ELSE "none"

\* What leaves the try statement of run_pipeline (lines 62-97) once its
\* finally clause has run: a CancelledError, an Exception no except clause
\* caught, or nothing.
Escaping ==
    IF exc = "cancelled" THEN "cancelled"
    ELSE IF exc = "error" /\ ~handled THEN "error"
    ELSE "none"

\* textual_ui.py, OverkillApp.run_pipeline (lines 222-229), after lines were
\* logged by the finally clause: try: await self._pipeline_func()
\* except Exception as e: self.log_activity(f"Error: {e}")
WorkerLog(lines) ==
    LogAfter(IF Escaping = "error" THEN lines \o <<"error">> ELSE lines)

\* Mutant of Finally: the removal stands at the end of the try block, so it
\* runs only when no phase raised.
Finally_OnlyOnSuccess ==
    /\ pc = "finally"
    /\ IF cleanup /\ exc = "none"
       THEN /\ activity_log' = WorkerLog(<<"cleanup">>)
            /\ tmpExists' = FALSE
       ELSE /\ activity_log' = WorkerLog(<<>>)
            /\ UNCHANGED tmpExists
    /\ workerExc' = Escaping
    /\ pc' = "done"
    /\ UNCHANGED <<lifeVars, inputVars, current_phase, agent_status, msgVars,
                   taskVars, cfgVars, cryVars, harnessVars, handled, cleanup, exc, ret, resultVars,
                   engVars, ghostVars>>

\* Mutant of Finally: the removal stands after the try statement instead of in
\* a finally clause, so a CancelledError passing through skips it.
Finally_NotOnCancel ==
    /\ pc = "finally"
    /\ IF cleanup /\ exc # "cancelled"
       THEN /\ activity_log' = WorkerLog(<<"cleanup">>)
            /\ tmpExists' = FALSE
       ELSE /\ activity_log' = WorkerLog(<<>>)
            /\ UNCHANGED tmpExists
    /\ workerExc' = Escaping
    /\ pc' = "done"
    /\ UNCHANGED <<lifeVars, inputVars, current_phase, agent_status, msgVars,
                   taskVars, cfgVars, cryVars, harnessVars, handled, cleanup, exc, ret, resultVars,
                   engVars, ghostVars>>

\* Mutant of Finally: the surface is shut down when the pipeline ends.
Finally_ClosesSurface ==
    /\ pc = "finally"
    /\ IF cleanup
       THEN /\ activity_log' = WorkerLog(<<"cleanup">>)
            /\ tmpExists' = FALSE
       ELSE /\ activity_log' = WorkerLog(<<>>)
            /\ UNCHANGED tmpExists
    /\ workerExc' = Escaping
    /\ pc' = "done"
    /\ running' = FALSE
    /\ UNCHANGED <<mounted, pipeline_func, inputVars, current_phase, agent_status, msgVars,
                   taskVars, cfgVars, cryVars, harnessVars, handled, cleanup, exc, ret, resultVars,
                   engVars, ghostVars>>

\* Lines 94-97: finally: if cleanup and repo_path: shutil.rmtree(repo_path).
\* repo_path is a Path, which is always true; rmtree removes the directory.
\* The pipeline function ends here, and the worker that awaits it handles
\* what escapes (WorkerLog) in the same step.
Finally ==
    /\ pc = "finally"
    /\ IF cleanup
       THEN /\ activity_log' = WorkerLog(<<"cleanup">>)
            /\ tmpExists' = FALSE
       ELSE /\ activity_log' = WorkerLog(<<>>)
            /\ UNCHANGED tmpExists
    /\ workerExc' = Escaping
    /\ pc' = "done"
    /\ UNCHANGED <<lifeVars, inputVars, current_phase, agent_status, msgVars,
                   taskVars, cfgVars, cryVars, harnessVars, handled, cleanup, exc, ret, resultVars,
                   engVars, ghostVars>>

\* The gateway fails while the pipeline awaits it: the session cannot be
\* established, or the turn raises.
GatewayFail ==
    /\ pc \in GatewayPcs
    /\ SurfaceIdle
    /\ exc' = "error"
    /\ failedIn' = PhaseOfPc(pc)
    /\ pc' = "except"
    /\ UNCHANGED <<surfaceVars, taskVars, cfgVars, cryVars, harnessVars, wrapVars, cleanup, tmpExists, ret,
                   resultVars, engVars, trace, inputs, sent, phaseCalls,
                   cancelledAt, userQuit, apiCalls, crystallizeCalls, agentTurns>>

----------------------------------------------------------------------------
(* core/explorer.py: RepoExplorer.explore *)

ExplorePhase == "explore"

\* Lines 29-54, to the await of the session.
ExploreBegin ==
    /\ pc = "explore_begin"
    /\ current_phase' = PhaseAfter(ExplorePhase)
    /\ phaseCalls' = Append(phaseCalls, ExplorePhase)
    /\ agent_status' = StatusAfter("RepoExplorer", "Analyzing repository...")
    /\ activity_log' = LogAfter(<<"explore_start">>)
    /\ pc' = "explore_connect"
    /\ UNCHANGED <<lifeVars, inputVars, msgVars, taskVars, cfgVars, cryVars, harnessVars, wrapVars, cleanup,
                   tmpExists, exc, ret, resultVars, engVars, trace, inputs,
                   sent, failedIn, cancelledAt, userQuit, apiCalls, crystallizeCalls, agentTurns>>

\* Line 55: the session is up, client.query(analysis_prompt).
ExploreConnected ==
    /\ pc = "explore_connect"
    /\ SurfaceIdle
    /\ pc' = "explore_recv"
    /\ UNCHANGED <<surfaceVars, taskVars, cfgVars, cryVars, harnessVars, wrapVars, cleanup, tmpExists, exc, ret,
                   resultVars, engVars, ghostVars>>

\* Lines 57-70: the turn's text fragments are concatenated into the summary.
ExploreRespond ==
    /\ pc = "explore_recv"
    /\ SurfaceIdle
    /\ \E text \in ExploreTexts :
          analysis' = <<[summary |-> text, path |-> args.repo]>>
    /\ agent_status' = StatusAfter("RepoExplorer", "Analysis complete")
    /\ activity_log' = LogAfter(<<"explore_done">>)
    /\ pc' = "eng_begin"
    /\ UNCHANGED <<lifeVars, inputVars, current_phase, msgVars, taskVars,
                   cfgVars, cryVars, harnessVars, wrapVars, cleanup, tmpExists, exc, ret, session, spec_path,
                   engVars, ghostVars>>

----------------------------------------------------------------------------
(* core/engineer.py: VibeEngineer *)

EngineerPhase == "engineer"

\* Mutant of HasReadyMarker: the response is not lower-cased.
HasReadyMarker_CaseSensitive(response) ==
    \/ Contains(T_SPEC_READY, response)
    \/ Contains(T_ready_to_generate, response)

\* Lines 90-93
HasReadyMarker(response) ==
    \/ Contains(T_SPEC_READY, response)
    \/ Contains(T_ready_to_generate, Lower(response))

\* Line 97
IsAffirmative(confirm) == Lower(confirm) \in {T_yes, T_y, T_done}

\* Line 106
\* Mutant of IsSessionEnd: the comparison without .lower().
IsSessionEnd_CaseSensitive(user_input) ==
    user_input \in {T_done, T_exit, T_quit, T_finish}

IsSessionEnd(user_input) == Lower(user_input) \in {T_done, T_exit, T_quit, T_finish}

\* Mutant of AppendTurn: a turn already in the history is not added again.
AppendTurn_Dedup(history, role, content) ==
    IF \E i \in 1..Len(history) : history[i] = [role |-> role, content |-> content]
    THEN history
    ELSE Append(history, [role |-> role, content |-> content])

\* Lines 85-87 and 111: conversation_history.append({"role": .., "content": ..})
AppendTurn(history, role, content) ==
    Append(history, [role |-> role, content |-> content])

\* Lines 57-62: the first message of the session.
InitialPrompt(summary, feature) == <<"A", ":">> \o summary \o <<"F", ":">> \o feature

\* Line 130
DemoHasNext(index, responses) == index < Len(responses)

\* Mutant of DemoAdvance: the cursor is not advanced.
DemoAdvance_Stuck(index) == index

\* Line 132
DemoAdvance(index) == index + 1

\* Mutant of DemoExhausted: a plain line is returned once the canned
\* responses are used up.
DemoExhausted_Plain == DemoText(1)

\* Line 136: the value returned once the canned responses are used up.
DemoExhausted == T_done

\* Lines 40-56, to the await of the session.
EngineerBegin ==
    /\ pc = "eng_begin"
    /\ current_phase' = PhaseAfter(EngineerPhase)
    /\ phaseCalls' = Append(phaseCalls, EngineerPhase)
    /\ agent_status' = StatusAfter("VibeEngineer", "Starting session...")
    /\ activity_log' = LogAfter(<<"engineer_start", "feature">>)
    /\ conversation_history' = <<>>
    /\ pc' = "eng_connect"
    /\ UNCHANGED <<lifeVars, inputVars, msgVars, taskVars, cfgVars, cryVars, harnessVars, wrapVars, cleanup,
                   tmpExists, exc, ret, resultVars, demo_response_index,
                   queryOutstanding, trace, inputs, sent, failedIn,
                   cancelledAt, userQuit, apiCalls, crystallizeCalls, agentTurns>>

\* Lines 57-72: client.query(initial), then the top of the loop.
EngineerConnected ==
    /\ pc = "eng_connect"
    /\ SurfaceIdle
    /\ sent' = Append(sent, InitialPrompt(analysis[1].summary, FeatureRequest))
    /\ queryOutstanding' = TRUE
    /\ agent_status' = StatusAfter("VibeEngineer", "Thinking...")
    /\ activity_log' = LogAfter(<<"waiting">>)
    /\ pc' = "eng_recv"
    /\ UNCHANGED <<lifeVars, inputVars, current_phase, msgVars, taskVars,
                   cfgVars, cryVars, harnessVars, wrapVars, cleanup, tmpExists, exc, ret, resultVars,
                   conversation_history, demo_response_index, trace, inputs,
                   phaseCalls, failedIn, cancelledAt, userQuit, apiCalls, crystallizeCalls,
                   agentTurns>>

\* Mutant of EngRespond: the else clause of line 115 is missing, so a turn
\* without text falls through to the input request of line 101.
EngRespond_EmptyAsksInput ==
    /\ pc = "eng_recv"
    /\ SurfaceIdle
    /\ \E response \in AgentTexts :
          /\ response # EMPTY =>
                /\ queryOutstanding
                /\ args.demo \/ agentTurns < MaxTurns
          /\ trace' = Append(trace, [kind |-> "agent", text |-> response])
          /\ agentTurns' = IF response # EMPTY THEN agentTurns + 1 ELSE agentTurns
          /\ IF response # EMPTY
             THEN /\ conversation_history' =
                        AppendTurn(conversation_history, "assistant", response)
                  /\ IF HasReadyMarker(response)
                     THEN /\ posted' = posted \o <<Message("agent", response),
                                                   Message("agent", T_confirm_prompt)>>
                          /\ pc' = "eng_confirm_call"
                     ELSE /\ posted' = Append(posted, Message("agent", response))
                          /\ pc' = "eng_input_call"
             ELSE /\ pc' = "eng_input_call"
                  /\ UNCHANGED <<conversation_history, posted>>
    /\ queryOutstanding' = FALSE
    /\ activity_log' = LogAfter(<<"response_length">>)
    /\ UNCHANGED <<lifeVars, inputVars, current_phase, agent_status,
                   messages_log, taskVars, cfgVars, cryVars, harnessVars, wrapVars, cleanup, tmpExists, exc,
                   ret, resultVars, demo_response_index, inputs, sent,
                   phaseCalls, failedIn, cancelledAt, userQuit, apiCalls, crystallizeCalls>>

\* Lines 72-99 and 115-116: one turn of the agent has been received. A turn
\* with text answers a query; with no query outstanding the stream can only
\* end without text.
EngRespond ==
    /\ pc = "eng_recv"
    /\ SurfaceIdle
    /\ \E response \in AgentTexts :
          /\ response # EMPTY =>
                /\ queryOutstanding
                /\ args.demo \/ agentTurns < MaxTurns
          /\ trace' = Append(trace, [kind |-> "agent", text |-> response])
          /\ agentTurns' = IF response # EMPTY THEN agentTurns + 1 ELSE agentTurns
          /\ IF response # EMPTY
             THEN /\ conversation_history' =
                        AppendTurn(conversation_history, "assistant", response)
                  /\ IF HasReadyMarker(response)
                     THEN /\ posted' = posted \o <<Message("agent", response),
                                                   Message("agent", T_confirm_prompt)>>
                          /\ pc' = "eng_confirm_call"
                     ELSE /\ posted' = Append(posted, Message("agent", response))
                          /\ pc' = "eng_input_call"
             ELSE /\ pc' = "eng_exit"
                  /\ UNCHANGED <<conversation_history, posted>>
    /\ queryOutstanding' = FALSE
    /\ activity_log' = LogAfter(<<"response_length">>)
    /\ UNCHANGED <<lifeVars, inputVars, current_phase, agent_status,
                   messages_log, taskVars, cfgVars, cryVars, harnessVars, wrapVars, cleanup, tmpExists, exc,
                   ret, resultVars, demo_response_index, inputs, sent,
                   phaseCalls, failedIn, cancelledAt, userQuit, apiCalls, crystallizeCalls>>

RetPcOf(callPc) == IF callPc = "eng_confirm_call" THEN "eng_confirm_ret" ELSE "eng_input_ret"
SleepPcOf(callPc) == IF callPc = "eng_confirm_call" THEN "eng_confirm_sleep" ELSE "eng_input_sleep"
WaitPcOf(callPc) == IF callPc = "eng_confirm_call" THEN "eng_confirm_wait" ELSE "eng_input_wait"

\* Lines 127-138: _get_user_input, to its await (or to its return when the
\* canned responses are used up).
GetUserInput ==
    /\ pc \in {"eng_confirm_call", "eng_input_call"}
    /\ IF args.demo
       THEN /\ IF DemoHasNext(demo_response_index, demo_responses)
               THEN /\ ret' = demo_responses[demo_response_index + 1]
                    /\ demo_response_index' = DemoAdvance(demo_response_index)
                    /\ pc' = SleepPcOf(pc)
               ELSE /\ ret' = DemoExhausted
                    /\ pc' = RetPcOf(pc)
                    /\ UNCHANGED demo_response_index
            /\ inputs' = Append(inputs, ret')
            /\ UNCHANGED <<inputVars, taskVars>>
       ELSE /\ prompt_user_arm("pipeline")
            /\ pc' = WaitPcOf(pc)
            /\ UNCHANGED <<ret, demo_response_index, inputs, cret>>
    /\ UNCHANGED <<lifeVars, displayVars, msgVars, cfgVars, cryVars, harnessVars, wrapVars, cleanup, tmpExists,
                   exc, resultVars, conversation_history, queryOutstanding,
                   trace, sent, phaseCalls, failedIn, cancelledAt, userQuit, apiCalls,
                   crystallizeCalls, agentTurns>>

\* Lines 133-134: asyncio.sleep(1) is over, the canned response is returned.
SleepDone ==
    /\ pc \in SleepPcs
    /\ SurfaceIdle
    /\ pc' = IF pc = "eng_confirm_sleep" THEN "eng_confirm_ret" ELSE "eng_input_ret"
    /\ UNCHANGED <<surfaceVars, taskVars, cfgVars, cryVars, harnessVars, wrapVars, cleanup, tmpExists, exc, ret,
                   resultVars, engVars, ghostVars>>

\* Mutant of PromptReturn: the request is not awaited: the caller goes on
\* with the value as it stands and leaves the request armed.
PromptReturn_NoWait ==
    /\ pc \in WaitPcs
    /\ SurfaceIdle
    /\ ret' = input_value
    /\ inputs' = Append(inputs, input_value)
    /\ pc' = IF pc = "eng_confirm_wait" THEN "eng_confirm_ret" ELSE "eng_input_ret"
    /\ UNCHANGED <<surfaceVars, taskVars, cfgVars, cryVars, harnessVars, wrapVars, cleanup,
                   tmpExists, exc, resultVars, engVars, trace, sent, phaseCalls,
                   failedIn, cancelledAt, userQuit, apiCalls, crystallizeCalls, agentTurns>>

\* textual_ui.py lines 313-316: the awaited Event is set, prompt_user returns.
PromptReturn ==
    /\ pc \in WaitPcs
    /\ SurfaceIdle
    /\ prompt_user_resume("pipeline")
    /\ ret' = input_value
    /\ inputs' = Append(inputs, input_value)
    /\ pc' = IF pc = "eng_confirm_wait" THEN "eng_confirm_ret" ELSE "eng_input_ret"
    /\ UNCHANGED <<lifeVars, displayVars, msgVars, cret, cfgVars, cryVars, harnessVars, wrapVars, cleanup,
                   tmpExists, exc, resultVars, engVars, trace, sent, phaseCalls,
                   failedIn, cancelledAt, userQuit, apiCalls, crystallizeCalls, agentTurns>>

\* Mutant of EngAfterConfirm: the answer is recorded as a user turn.
EngAfterConfirm_RecordsAnswer ==
    /\ pc = "eng_confirm_ret"
    /\ trace' = Append(trace, [kind |-> "confirm", text |-> ret])
    /\ posted' = Append(posted, Message("user", ret))
    /\ conversation_history' = AppendTurn(conversation_history, "user", ret)
    /\ pc' = IF IsAffirmative(ret) THEN "eng_exit" ELSE "eng_input_call"
    /\ UNCHANGED <<lifeVars, inputVars, displayVars, messages_log, taskVars,
                   cfgVars, cryVars, harnessVars, wrapVars, cleanup, tmpExists, exc, ret, resultVars,
                   demo_response_index, queryOutstanding,
                   inputs, sent, phaseCalls, failedIn, cancelledAt, userQuit, apiCalls,
                   crystallizeCalls, agentTurns>>

\* Lines 96-98: the answer to the confirmation.
EngAfterConfirm ==
    /\ pc = "eng_confirm_ret"
    /\ trace' = Append(trace, [kind |-> "confirm", text |-> ret])
    /\ posted' = Append(posted, Message("user", ret))
    /\ pc' = IF IsAffirmative(ret) THEN "eng_exit" ELSE "eng_input_call"
    /\ UNCHANGED <<lifeVars, inputVars, displayVars, messages_log, taskVars,
                   cfgVars, cryVars, harnessVars, wrapVars, cleanup, tmpExists, exc, ret, resultVars, engVars,
                   inputs, sent, phaseCalls, failedIn, cancelledAt, userQuit, apiCalls,
                   crystallizeCalls, agentTurns>>

\* Mutant of EngAfterInput: an empty line is sent to the gateway like any
\* other, only not recorded.
EngAfterInput_SendsBlank ==
    /\ pc = "eng_input_ret"
    /\ trace' = Append(trace, [kind |-> "input", text |-> ret])
    /\ IF ret = EMPTY
       THEN /\ sent' = Append(sent, ret)
            /\ queryOutstanding' = TRUE
            /\ activity_log' = LogAfter(<<"waiting">>)
            /\ pc' = "eng_recv"
            /\ UNCHANGED <<posted, agent_status, conversation_history>>
       ELSE IF IsSessionEnd(ret)
       THEN \* break
            /\ pc' = "eng_exit"
            /\ UNCHANGED <<posted, agent_status, activity_log,
                           conversation_history, sent, queryOutstanding>>
       ELSE /\ posted' = Append(posted, Message("user", ret))
            /\ conversation_history' = AppendTurn(conversation_history, "user", ret)
            /\ agent_status' = StatusAfter("VibeEngineer", "Thinking...")
            /\ sent' = Append(sent, ret)
            /\ queryOutstanding' = TRUE
            /\ activity_log' = LogAfter(<<"waiting">>)
            /\ pc' = "eng_recv"
    /\ UNCHANGED <<lifeVars, inputVars, current_phase, messages_log, taskVars,
                   cfgVars, cryVars, harnessVars, wrapVars, cleanup, tmpExists, exc, ret, resultVars,
                   demo_response_index, inputs, phaseCalls, failedIn,
                   cancelledAt, userQuit, apiCalls, crystallizeCalls, agentTurns>>

\* Lines 103-114, then line 70 at the top of the loop.
EngAfterInput ==
    /\ pc = "eng_input_ret"
    /\ trace' = Append(trace, [kind |-> "input", text |-> ret])
    /\ IF ret = EMPTY
       THEN \* continue
            /\ activity_log' = LogAfter(<<"waiting">>)
            /\ pc' = "eng_recv"
            /\ UNCHANGED <<posted, agent_status, conversation_history, sent,
                           queryOutstanding>>
       ELSE IF IsSessionEnd(ret)
       THEN \* break
            /\ pc' = "eng_exit"
            /\ UNCHANGED <<posted, agent_status, activity_log,
                           conversation_history, sent, queryOutstanding>>
       ELSE /\ posted' = Append(posted, Message("user", ret))
            /\ conversation_history' = AppendTurn(conversation_history, "user", ret)
            /\ agent_status' = StatusAfter("VibeEngineer", "Thinking...")
            /\ sent' = Append(sent, ret)
            /\ queryOutstanding' = TRUE
            /\ activity_log' = LogAfter(<<"waiting">>)
            /\ pc' = "eng_recv"
    /\ UNCHANGED <<lifeVars, inputVars, current_phase, messages_log, taskVars,
                   cfgVars, cryVars, harnessVars, wrapVars, cleanup, tmpExists, exc, ret, resultVars,
                   demo_response_index, inputs, phaseCalls, failedIn,
                   cancelledAt, userQuit, apiCalls, crystallizeCalls, agentTurns>>

\* Lines 118-125: the session is returned to run_pipeline.
EngineerFinish ==
    /\ pc = "eng_exit"
    /\ agent_status' = StatusAfter("VibeEngineer", "Session complete")
    /\ activity_log' = LogAfter(<<"engineer_done">>)
    /\ session' = <<[conversation |-> conversation_history,
                     repo_analysis |-> analysis[1],
                     feature_request |-> FeatureRequest]>>
    /\ pc' = "cry_begin"
    /\ UNCHANGED <<lifeVars, inputVars, current_phase, msgVars, taskVars,
                   cfgVars, cryVars, harnessVars, wrapVars, cleanup, tmpExists, exc, ret, analysis, spec_path,
                   engVars, ghostVars>>

----------------------------------------------------------------------------
(* core/crystallizer.py: Crystallizer.crystallize *)

\* Mutant of CrystallizePhase: the phase name of another phase object.
CrystallizePhase_Explore == "explore"

CrystallizePhase == "crystallize"

\* Mutant of OutputPath: the path is not resolved.
OutputPath_Unresolved == args.output

\* main.py line 85: output_path = Path(args.output).resolve()
OutputPath == Resolve(args.output)

UpperChar(c) ==
    IF \E i \in DOMAIN LowerChars : LowerChars[i] = c
    THEN UpperChars[CHOOSE i \in DOMAIN LowerChars : LowerChars[i] = c]
    ELSE c

\* str.upper()
Upper(s) == [i \in 1..Len(s) |-> UpperChar(s[i])]

\* The role of a turn, as text.
RoleText(role) ==
    IF role = "assistant"
    THEN <<"a","s","s","i","s","t","a","n","t">>
    ELSE <<"u","s","e","r">>

\* Mutant of BlockSeparator: the blocks are joined by one newline.
BlockSeparator_OneNewline == <<"\n">>

\* Line 91: "\n\n"
BlockSeparator == <<"\n", "\n">>

\* separator.join(blocks)
RECURSIVE Join(_, _)
Join(separator, blocks) ==
    IF blocks = <<>> THEN EMPTY
    ELSE IF Len(blocks) = 1 THEN blocks[1]
    ELSE blocks[1] \o separator \o Join(separator, Tail(blocks))

\* Line 90: f"{role}: {content}" with role = turn["role"].upper()
FormatTurn(turn) == Upper(RoleText(turn.role)) \o <<":", " ">> \o turn.content

\* _format_conversation (lines 84-91)
FormatConversation(history) ==
    Join(BlockSeparator, [i \in 1..Len(history) |-> FormatTurn(history[i])])

\* Mutant of CrystallizePromptOf: the prompt is built from the transcript
\* without its last turn.
CrystallizePromptOf_DropsLastTurn(sess, output_path) ==
    [summary |-> sess.repo_analysis.summary,
     feature_request |-> sess.feature_request,
     conversation |->
         FormatConversation(SubSeq(sess.conversation, 1,
                                   Len(sess.conversation) - 1)),
     output_path |-> output_path]

\* Lines 38-59: what crystallize_prompt is built from.
CrystallizePromptOf(sess, output_path) ==
    [summary |-> sess.repo_analysis.summary,
     feature_request |-> sess.feature_request,
     conversation |-> FormatConversation(sess.conversation),
     output_path |-> output_path]

\* Lines 28-66, to the await of the session.
CrystallizeBegin ==
    /\ pc = "cry_begin"
    /\ crystallize_prompt' = <<CrystallizePromptOf(session[1], OutputPath)>>
    /\ current_phase' = PhaseAfter(CrystallizePhase)
    /\ phaseCalls' = Append(phaseCalls, CrystallizePhase)
    /\ agent_status' = StatusAfter("Crystallizer", "Generating spec...")
    /\ activity_log' = LogAfter(<<"generating">>)
    /\ crystallizeCalls' = crystallizeCalls + 1
    /\ pc' = "cry_connect"
    /\ UNCHANGED <<lifeVars, inputVars, msgVars, taskVars, cfgVars, artifact,
                   toolUses, harnessVars, wrapVars, cleanup,
                   tmpExists, exc, ret, resultVars, engVars, trace, inputs,
                   sent, failedIn, cancelledAt, userQuit, apiCalls, agentTurns>>

\* Line 67: client.query(crystallize_prompt)
CrystallizeConnected ==
    /\ pc = "cry_connect"
    /\ SurfaceIdle
    /\ pc' = "cry_recv"
    /\ UNCHANGED <<surfaceVars, taskVars, cfgVars, cryVars, harnessVars, wrapVars, cleanup, tmpExists, exc, ret,
                   resultVars, engVars, ghostVars>>

\* Lines 69-77: an AssistantMessage with a ToolUseBlock arrives and is
\* logged. The only tool allowed is Write (line 32) and edits are accepted
\* (line 33), so the gateway's agent writes the file at the output path
\* itself, unless the write fails.
CrystallizeToolUse ==
    /\ pc = "cry_recv"
    /\ SurfaceIdle
    /\ toolUses < MaxToolUses
    /\ toolUses' = toolUses + 1
    /\ activity_log' = LogAfter(<<"tool_use">>)
    /\ \E ok \in BOOLEAN : artifact' = IF ok THEN "written" ELSE artifact
    /\ UNCHANGED <<lifeVars, inputVars, current_phase, agent_status, msgVars,
                   taskVars, pc, cfgVars, crystallize_prompt, harnessVars,
                   wrapVars, cleanup, tmpExists, exc, ret, resultVars,
                   engVars, ghostVars>>

\* Lines 69-82, then main.py lines 87-90: the path is returned and reported.
CrystallizeRespond ==
    /\ pc = "cry_recv"
    /\ SurfaceIdle
    /\ agent_status' = StatusAfter("Crystallizer", "Complete")
    /\ activity_log' = LogAfter(<<"spec_written", "generated", "complete">>)
    /\ spec_path' = <<OutputPath>>
    /\ pc' = "finally"
    /\ UNCHANGED <<lifeVars, inputVars, current_phase, msgVars, taskVars,
                   cfgVars, cryVars, harnessVars, wrapVars, cleanup, tmpExists, exc, ret, analysis, session,
                   engVars, ghostVars>>

----------------------------------------------------------------------------
(* ui/textual_ui.py: the surface loop *)

\* Mutant of Mount: the handler runs whenever the screen is shown again,
\* and starts the pipeline worker each time.
Mount_OnEveryShow ==
    /\ PipelineYielded
    /\ running \/ ~mounted
    /\ mounted' = TRUE
    /\ running' = TRUE
    /\ pc' = IF pipeline_func THEN "start" ELSE pc
    /\ UNCHANGED <<pipeline_func, inputVars, displayVars, msgVars, taskVars,
                   cfgVars, cryVars, harnessVars, wrapVars, cleanup,
                   tmpExists, exc, ret, resultVars, engVars, ghostVars>>

\* on_mount (lines 217-220): the widgets exist; the pipeline worker is created.
Mount ==
    /\ ~mounted
    /\ ~running
    /\ pc = "unstarted"
    /\ mounted' = TRUE
    /\ running' = TRUE
    /\ pc' = IF pipeline_func THEN "start" ELSE pc
    /\ UNCHANGED <<pipeline_func, inputVars, displayVars, msgVars, taskVars,
                   cfgVars, cryVars, harnessVars, wrapVars, cleanup, tmpExists, exc, ret, resultVars, engVars,
                   ghostVars>>

\* The human submits a line through #user-input.
Submit ==
    /\ running
    /\ PipelineYielded
    /\ SurfaceIdle
    /\ \E value \in UserLines : on_input_submitted(value)
    /\ UNCHANGED <<lifeVars, displayVars, msgVars, taskVars, pipeVars, harnessVars, ghostVars>>

\* The surface loop handles one AddMessageRequest.
HandleAddMessage ==
    /\ running
    /\ PipelineYielded
    /\ handle_add_message
    /\ UNCHANGED <<lifeVars, inputVars, displayVars, taskVars, pipeVars, harnessVars, ghostVars>>

\* action_quit (lines 318-320): exit() ends the surface loop; the worker is
\* cancelled, which raises CancelledError at the await the pipeline task is
\* suspended in. CancelledError is no Exception: line 92 does not catch it.
Quit ==
    /\ running
    /\ PipelineYielded
    /\ SurfaceIdle
    /\ running' = FALSE
    /\ userQuit' = TRUE
    /\ IF pc \in SuspendedPcs
       THEN /\ exc' = "cancelled"
            /\ cancelledAt' = pc
            /\ pc' = "finally"
       ELSE IF pc = "start"
       THEN \* the task is cancelled before its first step: nothing of it runs
            /\ cancelledAt' = pc
            /\ pc' = "done"
            /\ UNCHANGED exc
       ELSE UNCHANGED <<pc, exc, cancelledAt>>
    /\ UNCHANGED <<mounted, pipeline_func, inputVars, displayVars, msgVars,
                   taskVars, cfgVars, cryVars, harnessVars, wrapVars, cleanup, tmpExists, ret, resultVars,
                   engVars, trace, inputs, sent, phaseCalls, failedIn,
                   crystallizeCalls, agentTurns, apiCalls>>

----------------------------------------------------------------------------
(* The program *)

ArgsSet == [repo : {"url", "local"}, demo : BOOLEAN, output : OutputArgs]

\* The list of VibeEngineer.__init__ has four plain entries and then "done".
DefaultDemoResponses == [i \in 1..5 |-> IF i = 5 THEN T_done ELSE DemoText(i)]

\* OverkillApp.__init__ (textual_ui.py lines 196-202) and the locals of
\* run_pipeline and of the phase objects before they are assigned.
Constructed ==
    /\ mounted = FALSE
    /\ running = FALSE
    /\ input_event = NoEvent
    /\ input_value = EMPTY
    /\ evSet = [e \in EventIds |-> FALSE]
    /\ current_phase = "explore"
    /\ agent_status = <<"Idle", "Ready">>
    /\ activity_log = <<>>
    /\ posted = <<>>
    /\ messages_log = <<>>
    /\ cwait = [t \in Tasks |-> NoEvent]
    /\ cret = [t \in Tasks |-> EMPTY]
    /\ pc = "unstarted"
    /\ cleanup = FALSE
    /\ tmpExists = FALSE
    /\ exc = "none"
    /\ ret = EMPTY
    /\ analysis = <<>>
    /\ session = <<>>
    /\ spec_path = <<>>
    /\ conversation_history = <<>>
    /\ demo_response_index = 0
    /\ queryOutstanding = FALSE
    /\ trace = <<>>
    /\ inputs = <<>>
    /\ sent = <<>>
    /\ phaseCalls = <<>>
    /\ failedIn = "none"
    /\ cancelledAt = "none"
    /\ crystallizeCalls = 0
    /\ agentTurns = 0
    /\ userQuit = FALSE
    /\ apiCalls = <<>>
    /\ crystallize_prompt = <<>>
    /\ artifact = "none"
    /\ toolUses = 0
    /\ toolEvents = <<>>
    /\ exploreLog = <<>>
    /\ crystalLog = <<>>
    /\ handled = FALSE
    /\ workerExc = "none"

\* main(): the arguments are parsed, TextualUI() is constructed and
\* ui.run(pipeline_func=pipeline_task) has called set_pipeline.
Init ==
    /\ Constructed
    /\ pipeline_func = TRUE
    /\ args \in ArgsSet
    /\ demo_responses \in (IF args.demo THEN DemoLists ELSE {DefaultDemoResponses})

Next ==
    \/ Mount
    \/ Submit
    \/ HandleAddMessage
    \/ Quit
    \/ Acquire
    \/ CloneReturn
    \/ ExceptClause
    \/ Finally
    \/ GatewayFail
    \/ ExploreBegin
    \/ ExploreConnected
    \/ ExploreRespond
    \/ EngineerBegin
    \/ EngineerConnected
    \/ EngRespond
    \/ GetUserInput
    \/ SleepDone
    \/ PromptReturn
    \/ EngAfterConfirm
    \/ EngAfterInput
    \/ EngineerFinish
    \/ CrystallizeBegin
    \/ CrystallizeConnected
    \/ CrystallizeRespond

Spec == Init /\ [][Next]_vars

----------------------------------------------------------------------------
(* The surface alone, driven through its public operations by two tasks *)

\* A task calls prompt_user (lines 301-313).
SurfPrompt ==
    /\ \E t \in Tasks :
          /\ cwait[t] = NoEvent
          /\ prompt_user_arm(t)
    /\ UNCHANGED <<lifeVars, displayVars, msgVars, cret, pipeVars, harnessVars, ghostVars>>

\* The Event a task awaits was set: prompt_user returns (lines 315-316).
SurfResume ==
    /\ \E t \in Tasks :
          /\ prompt_user_resume(t)
          /\ cret' = [cret EXCEPT ![t] = input_value]
    /\ UNCHANGED <<lifeVars, displayVars, msgVars, pipeVars, harnessVars, ghostVars>>

\* A task calls update_phase, update_agent_status or log_activity, whether
\* the surface is mounted or not (lines 238-261).
SurfUpdatePhase ==
    /\ Len(apiCalls) < MaxApiCalls
    /\ apiCalls' = Append(apiCalls, "update_phase")
    /\ current_phase' = PhaseAfter("engineer")
    /\ UNCHANGED <<lifeVars, inputVars, agent_status, activity_log, msgVars,
                   taskVars, pipeVars, harnessVars, trace, inputs, sent,
                   phaseCalls, failedIn, cancelledAt, crystallizeCalls,
                   agentTurns, userQuit>>

SurfUpdateStatus ==
    /\ Len(apiCalls) < MaxApiCalls
    /\ apiCalls' = Append(apiCalls, "update_agent_status")
    /\ agent_status' = StatusAfter("RepoExplorer", "Starting...")
    /\ UNCHANGED <<lifeVars, inputVars, current_phase, activity_log, msgVars,
                   taskVars, pipeVars, harnessVars, trace, inputs, sent,
                   phaseCalls, failedIn, cancelledAt, crystallizeCalls,
                   agentTurns, userQuit>>

SurfLogActivity ==
    /\ Len(apiCalls) < MaxApiCalls
    /\ apiCalls' = Append(apiCalls, "log_activity")
    /\ activity_log' = LogAfter(<<"note">>)
    /\ UNCHANGED <<lifeVars, inputVars, current_phase, agent_status, msgVars,
                   taskVars, pipeVars, harnessVars, trace, inputs, sent,
                   phaseCalls, failedIn, cancelledAt, crystallizeCalls,
                   agentTurns, userQuit>>

\* Mutant of Shutdown: every call reports itself in the activity log.
Shutdown_LogsEachCall ==
    /\ Len(apiCalls) < MaxApiCalls
    /\ apiCalls' = Append(apiCalls, "shutdown")
    /\ activity_log' = LogAfter(<<"shutdown">>)
    /\ running' = FALSE
    /\ UNCHANGED <<mounted, pipeline_func, inputVars, current_phase,
                   agent_status, msgVars, taskVars, pipeVars, harnessVars,
                   trace, inputs, sent, phaseCalls, failedIn, cancelledAt,
                   crystallizeCalls, agentTurns, userQuit>>

\* TextualUI.shutdown (lines 361-364): if self.app.is_running:
\* self.app.exit(). No pipeline worker exists when the surface is driven
\* alone, so exit() only ends the surface loop.
Shutdown ==
    /\ Len(apiCalls) < MaxApiCalls
    /\ apiCalls' = Append(apiCalls, "shutdown")
    /\ running' = IF running THEN FALSE ELSE running
    /\ UNCHANGED <<mounted, pipeline_func, inputVars, displayVars, msgVars,
                   taskVars, pipeVars, harnessVars, trace, inputs, sent,
                   phaseCalls, failedIn, cancelledAt, crystallizeCalls,
                   agentTurns, userQuit>>

\* TextualUI() with no pipeline set: run(pipeline_func=None).
SurfaceInit ==
    /\ Constructed
    /\ pipeline_func = FALSE
    /\ args = [repo |-> "local", demo |-> FALSE,
               output |-> [abs |-> FALSE, parts |-> <<"SPEC.md">>]]
    /\ demo_responses = DefaultDemoResponses

SurfaceNext ==
    \/ Mount
    \/ Submit
    \/ Quit
    \/ SurfPrompt
    \/ SurfResume
    \/ SurfUpdatePhase
    \/ SurfUpdateStatus
    \/ SurfLogActivity
    \/ Shutdown

SurfaceSpec == SurfaceInit /\ [][SurfaceNext]_vars

----------------------------------------------------------------------------
(* core/explorer.py and core/crystallizer.py: how a tool event received    *)
(* from the gateway is written to the activity log. The same stream of     *)
(* events is handed to the methods of a RepoExplorer and of a Crystallizer.*)

Rep(c, n) == [i \in 1..n |-> c]

\* str(n) for a natural number
RECURSIVE ToDecimal(_)
ToDecimal(n) ==
    LET digit == <<"0","1","2","3","4","5","6","7","8","9">>[(n % 10) + 1]
    IN  IF n < 10 THEN <<digit>> ELSE ToDecimal(n \div 10) \o <<digit>>

\* text.count("\n")
CountNewlines(text) == Cardinality({i \in 1..Len(text) : text[i] = "\n"})

\* text.replace("\n", " ")
NewlinesToSpaces(text) ==
    [i \in 1..Len(text) |-> IF text[i] = "\n" THEN " " ELSE text[i]]

\* text[:n]
Prefix(text, n) == SubSeq(text, 1, IF n <= Len(text) THEN n ELSE Len(text))

\* tool_input.get(key, default)
Get(tool_input, key, default) ==
    IF key \in DOMAIN tool_input THEN tool_input[key] ELSE default

N_Read == <<"R","e","a","d">>
N_Grep == <<"G","r","e","p">>
N_Glob == <<"G","l","o","b">>
N_Bash == <<"B","a","s","h">>
N_Write == <<"W","r","i","t","e">>
T_unknown == <<"u","n","k","n","o","w","n">>
T_dots == <<".", ".", ".">>
T_Result == <<"R","e","s","u","l","t",":"," ">>
T_lines == <<" ","l","i","n","e","s">>
T_File_written == <<"F","i","l","e"," ","w","r","i","t","t","e","n"," ","s","u","c","c","e","s","s","f","u","l","l","y">>

\* f"{name}({shown})"
Call(name, shown) == name \o <<"(">> \o shown \o <<")">>

\* RepoExplorer._log_tool_use (explorer.py lines 72-93): the lines logged.
ExploreLogToolUse(block) ==
    CASE block.name = N_Read ->
           <<Call(N_Read, Get(block.input, "file_path", T_unknown))>>
      [] block.name = N_Grep ->
           <<Call(N_Grep, Get(block.input, "pattern", EMPTY))>>
      [] block.name = N_Glob ->
           <<Call(N_Glob, Get(block.input, "pattern", EMPTY))>>
      [] block.name = N_Bash ->
           LET command == Get(block.input, "command", EMPTY)
           IN  <<Call(N_Bash, IF Len(command) > 40
                              THEN Prefix(command, 37) \o T_dots
                              ELSE command)>>
      [] OTHER -> <<Call(block.name, T_dots)>>

\* RepoExplorer._log_tool_result (explorer.py lines 95-108)
ExploreLogToolResult(block) ==
    LET content == block.content
    IN  IF Len(content) > 100
        THEN <<T_Result \o ToDecimal(CountNewlines(content) + 1) \o T_lines>>
        ELSE IF content # EMPTY
        THEN <<T_Result \o NewlinesToSpaces(Prefix(content, 50))
                        \o (IF Len(content) > 50 THEN T_dots ELSE EMPTY)>>
        ELSE <<>>

\* Crystallizer._log_tool_use (crystallizer.py lines 93-102)
CrystallizeLogToolUse(block) ==
    IF block.name = N_Write
    THEN <<Call(N_Write, Get(block.input, "file_path", T_unknown))>>
    ELSE <<Call(block.name, T_dots)>>

\* Crystallizer._log_tool_result (crystallizer.py lines 104-106)
CrystallizeLogToolResult(block) == <<T_File_written>>

\* explorer.py lines 62-65
ExploreLogs(block) ==
    IF block.kind = "use" THEN ExploreLogToolUse(block)
    ELSE ExploreLogToolResult(block)

\* crystallizer.py lines 74-77
CrystallizeLogs(block) ==
    IF block.kind = "use" THEN CrystallizeLogToolUse(block)
    ELSE CrystallizeLogToolResult(block)

ToolUse(name, tool_input) == [kind |-> "use", name |-> name, input |-> tool_input]
ToolResult(content) == [kind |-> "result", content |-> content]

\* The tool events tried: every branch of the four methods is taken by one.
ToolEvents ==
    { ToolUse(N_Read, [file_path |-> <<"a",".","p","y">>]),
      ToolUse(N_Read, [limit |-> <<"5">>]),
      ToolUse(N_Grep, [pattern |-> <<"d","e","f">>]),
      ToolUse(N_Glob, [pattern |-> <<"*">>]),
      ToolUse(N_Bash, [command |-> <<"l","s">>]),
      ToolUse(N_Bash, [command |-> Rep("c", 41)]),
      ToolUse(N_Write, [file_path |-> <<"S","P","E","C",".","m","d">>]),
      ToolUse(<<"T","a","s","k">>, [prompt |-> <<"x">>]),
      ToolResult(EMPTY),
      ToolResult(<<"o","k">>),
      ToolResult(Rep("r", 25) \o <<"\n">> \o Rep("r", 25)),
      ToolResult(Rep("r", 50) \o <<"\n">> \o Rep("r", 50)) }

\* One more tool event arrives and is logged by both objects.
ToolEventArrives ==
    /\ Len(toolEvents) < MaxToolEvents
    /\ \E block \in ToolEvents :
          /\ toolEvents' = Append(toolEvents, block)
          /\ exploreLog' = exploreLog \o ExploreLogs(block)
          /\ crystalLog' = crystalLog \o CrystallizeLogs(block)
    /\ UNCHANGED <<surfaceVars, taskVars, pipeVars, ghostVars>>

ToolInit ==
    /\ Constructed
    /\ pipeline_func = FALSE
    /\ args = [repo |-> "local", demo |-> FALSE,
               output |-> [abs |-> FALSE, parts |-> <<"SPEC.md">>]]
    /\ demo_responses = DefaultDemoResponses

ToolNext == ToolEventArrives

ToolSpec == ToolInit /\ [][ToolNext]_vars

----------------------------------------------------------------------------
(* The program with the tool invocations of the Crystallize session. They  *)
(* change the activity log and the file at the output path and nothing     *)
(* else of the program, so Spec leaves them out; here they are followed,   *)
(* for a cloned repository and one --output value.                         *)

\* The program under the scheduling of the event loop: a task that is ready
\* to run is run, a posted message is handled, a sleep ends, and (the
\* hypothesis of the termination claim) a turn of the agent completes.
LoopFairness ==
    /\ WF_vars(HandleAddMessage)
    /\ WF_vars(EngRespond)
    /\ WF_vars(GetUserInput)
    /\ WF_vars(SleepDone)
    /\ WF_vars(EngAfterConfirm)
    /\ WF_vars(EngAfterInput)
FairSpec == Spec /\ LoopFairness

ArtifactInit ==
    /\ Constructed
    /\ pipeline_func = TRUE
    /\ args \in {a \in ArgsSet : a.repo = "url" /\ ~a.output.abs}
    /\ demo_responses \in IF args.demo THEN DemoLists ELSE {DefaultDemoResponses}

ArtifactNext ==
    \/ Next
    \/ CrystallizeToolUse

ArtifactSpec == ArtifactInit /\ [][ArtifactNext]_vars

----------------------------------------------------------------------------
(* Properties *)

Last(seq) == seq[Len(seq)]
IsPrefix(a, b) == Len(a) <= Len(b) /\ SubSeq(b, 1, Len(a)) = a
Min(a, b) == IF a <= b THEN a ELSE b

\* The session-ending tokens and the affirmative answers, as lower-case text.
SessionEndingTokens == {T_done, T_exit, T_quit, T_finish}
AffirmativeAnswers == {T_yes, T_y, T_done}
ReadyText(text) ==
    Contains(T_SPEC_READY, text) \/ Contains(T_ready_to_generate, Lower(text))

\* The positions of the Engineer turn loop, and those of asking the human.
LoopPcs == {"eng_recv", "eng_confirm_call", "eng_input_call"} \cup SleepPcs \cup WaitPcs
ConfirmAskPcs == {"eng_confirm_call", "eng_confirm_sleep", "eng_confirm_wait", "eng_confirm_ret"}
InputAskPcs == {"eng_input_call", "eng_input_sleep", "eng_input_wait", "eng_input_ret"}
\* The pipeline task was stopped from outside the loop: it failed or was cancelled.
Stopped == failedIn # "none" \/ cancelledAt # "none"

IsUserTurn(turn) == turn.role = "user"
UserTurns(history) == Len(SelectSeq(history, IsUserTurn))

\* What the conversation should hold of an event of the loop: a non-empty
\* agent response, or a human input that is neither empty nor a
\* session-ending token. Answers to the confirmation are no turns.
IsRecorded(e) ==
    \/ e.kind = "agent" /\ e.text # EMPTY
    \/ e.kind = "input" /\ e.text # EMPTY /\ Lower(e.text) \notin SessionEndingTokens
ExpectedTranscript(events) ==
    LET kept == SelectSeq(events, IsRecorded)
    IN  [i \in 1..Len(kept) |->
            [role |-> IF kept[i].kind = "agent" THEN "assistant" ELSE "user",
             content |-> kept[i].text]]

\* C1: the transcript is exactly the non-empty agent responses and the accepted
\* human inputs, in the order in which they occurred (so it only grows by
\* appending, and nothing is lost, reordered or deduplicated), and the session
\* returned by engineer() carries that transcript.
C1_TranscriptIsEventOrder ==
    /\ conversation_history = ExpectedTranscript(trace)
    /\ session # <<>> => session[1].conversation = ExpectedTranscript(trace)

\* C1 witness: four turns with the same human text twice, after a confirmation
\* answer that is no turn.
C1_Witness ==
    /\ Len(conversation_history) = 4
    /\ conversation_history[2] = conversation_history[4]
    /\ conversation_history[2].role = "user"
    /\ \E i \in 1..Len(trace) : trace[i].kind = "confirm"

\* C2 (as claimed): a request that is still waiting keeps the wait object of
\* the surface: no second prompt_user call replaces or clears it, so the next
\* submitted line resolves the first caller.
C2_FirstRequestKeepsItsWaitObject ==
    \A t \in Tasks : cwait[t] # NoEvent => input_event = cwait[t]

\* C3: the values passed to update_phase form a prefix of explore, engineer,
\* crystallize, and the indicator shows the last of them.
C3_PhasePrefix ==
    /\ IsPrefix(phaseCalls, PhaseOrder)
    /\ current_phase = IF phaseCalls = <<>> THEN "explore" ELSE Last(phaseCalls)

\* C3 witness: all three phases were shown.
C3_Witness == phaseCalls = PhaseOrder /\ current_phase = "crystallize"

\* C4: after a clone, a failure raised in Explore, Engineer or Crystallize
\* leaves no temporary directory behind when run_pipeline has ended.
C4_CleanupAfterPhaseFailure ==
    (pc = "done" /\ args.repo = "url"
        /\ failedIn \in {"explore", "engineer", "crystallize"}) => ~tmpExists

\* C4 witness: the pipeline ended after a failure in Crystallize of a cloned repository.
C4_Witness ==
    pc = "done" /\ args.repo = "url" /\ cleanup /\ failedIn = "crystallize"

\* C5 (as claimed): once the pipeline task has ended, no temporary directory
\* is left, whatever happened, a failed clone included.
C5_NoTmpDirAfterPipeline == pc = "done" => ~tmpExists

\* C6: a cancellation at any await of the pipeline task still removes the
\* staged directory before the task exits.
C6_CleanupAfterCancel ==
    (pc = "done" /\ args.repo = "url" /\ cancelledAt \in SuspendedPcs) => ~tmpExists

\* C6 witness: the task ended after being cancelled while waiting for the human.
C6_Witness ==
    pc = "done" /\ args.repo = "url" /\ cleanup /\ cancelledAt = "eng_input_wait"

\* The canned list followed for ever by phrase.
CannedThen(phrase, k) ==
    IF k <= Len(demo_responses) THEN demo_responses[k] ELSE phrase

\* C7 (amended): in demo mode the k-th input request returns the k-th canned
\* response, the cursor is the number of canned responses handed out (it only
\* advances and stops at the length of the list), every later request returns
\* "done", and that phrase ends the turn loop.
C7_DemoCannedThenDone ==
    args.demo =>
        /\ demo_response_index \in 0..Len(demo_responses)
        /\ demo_response_index = Min(Len(inputs), Len(demo_responses))
        /\ \A k \in 1..Len(inputs) : inputs[k] = CannedThen(T_done, k)
        /\ Len(inputs) > Len(demo_responses) =>
              /\ Len(inputs) = Len(demo_responses) + 1
              /\ pc \notin LoopPcs

\* C7 witness: a list of two or more entries is used up and one more request
\* was answered.
C7_Witness ==
    /\ args.demo
    /\ Len(demo_responses) >= 2
    /\ Len(inputs) > Len(demo_responses)
    /\ pc = "eng_exit"

\* C7 (as claimed): the phrase returned after the list is "finish the session".
C7_DemoCannedThenFinishTheSession ==
    args.demo =>
        /\ demo_response_index = Min(Len(inputs), Len(demo_responses))
        /\ \A k \in 1..Len(inputs) : inputs[k] = CannedThen(T_finish_the_session, k)

\* C8 (as claimed): on an empty human input nothing is appended, nothing is
\* sent, and the loop asks the human again instead of awaiting the gateway.
C8_BlankInputAsksAgain ==
    [][(pc = "eng_input_ret" /\ ret = EMPTY) =>
          /\ conversation_history' = conversation_history
          /\ sent' = sent
          /\ pc' \in InputAskPcs]_vars

\* C9: a response with the marker SPEC_READY, or with "ready to generate" in
\* any case, is followed by a confirmation request; an affirmative answer is
\* the last event of the loop, and any other answer is followed by a normal
\* input request, the loop not having ended.
C9_ReadinessConfirmation ==
    \A i \in 1..Len(trace) :
        /\ (trace[i].kind = "agent" /\ trace[i].text # EMPTY /\ ReadyText(trace[i].text)) =>
              IF i = Len(trace)
              THEN pc \in ConfirmAskPcs \/ Stopped
              ELSE trace[i + 1].kind = "confirm"
        /\ trace[i].kind = "confirm" =>
              IF Lower(trace[i].text) \in AffirmativeAnswers
              THEN i = Len(trace) /\ pc \notin LoopPcs \cup ConfirmAskPcs \cup InputAskPcs
              ELSE IF i = Len(trace)
                   THEN pc \in InputAskPcs \/ Stopped
                   ELSE trace[i + 1].kind = "input"

\* C9 witness: the confirmation was answered "no" and the transcript grew by
\* the next input and the next response.
C9_Witness ==
    /\ Len(trace) >= 4
    /\ trace[1].kind = "agent" /\ ReadyText(trace[1].text)
    /\ trace[2] = [kind |-> "confirm", text |-> T_no]
    /\ trace[3].kind = "input"
    /\ trace[4].kind = "agent"
    /\ Len(conversation_history) >= 3

\* The scenario of C10: a local repository, demo mode, two plain canned
\* responses and then "done", an agent that only answers plain text.
C10_Scenario ==
    /\ args.repo = "local"
    /\ args.demo
    /\ demo_responses = <<DemoText(1), DemoText(2), T_done>>
    /\ \A i \in 1..Len(trace) : trace[i].kind = "agent" => trace[i].text = A_plain

C10_Outcome(humanTurns) ==
    C10_Scenario =>
        /\ crystallizeCalls <= 1
        /\ crystallizeCalls = 1 =>
              /\ pc \notin LoopPcs
              /\ Len(inputs) = 3
              /\ session # <<>>
              /\ UserTurns(session[1].conversation) = humanTurns
        /\ (pc = "done" /\ ~Stopped) =>
              /\ crystallizeCalls = 1
              /\ spec_path = <<Resolve(args.output)>>

\* C10 (amended): in the scenario two human turns are recorded (the final
\* "done" ends the loop and is not recorded), then the loop has ended,
\* Crystallize is called once and returns the resolved --output path.
C10_ScenarioTwoHumanTurns == C10_Outcome(2)

\* C10 witness: the scenario ran to its end.
C10_Witness == C10_Scenario /\ pc = "done" /\ ~Stopped /\ spec_path # <<>>

\* C10 (as claimed): three human turns are recorded.
C10_ScenarioThreeHumanTurns == C10_Outcome(3)

\* The events of the loop before the i-th one.
Before(i) == SubSeq(trace, 1, i - 1)
IsEndingInput(e) ==
    e.kind = "input" /\ Lower(e.text) \in SessionEndingTokens

\* C11: a human input that is, whatever its case, one of "done", "exit",
\* "quit", "finish" ends the turn loop at once: it is the last event of the
\* loop, the pipeline is at no position of the loop any more, no response is
\* awaited, the gateway was sent the initial prompt and the inputs accepted
\* before the token and nothing else, and the transcript is what it was
\* before the token.
C11_EndingTokenEndsLoop ==
    \A i \in 1..Len(trace) :
        IsEndingInput(trace[i]) =>
            /\ i = Len(trace)
            /\ pc \notin LoopPcs \cup ConfirmAskPcs \cup InputAskPcs
            /\ ~queryOutstanding
            /\ conversation_history = ExpectedTranscript(Before(i))
            /\ Len(sent) = 1 + UserTurns(conversation_history)
            /\ \A k \in 2..Len(sent) : Lower(sent[k]) \notin SessionEndingTokens

\* C11 witness: the human typed "Done" at the second input request, and
\* engineer() returned.
C11_Witness ==
    /\ ~args.demo
    /\ Len(trace) = 4
    /\ trace[4] = [kind |-> "input", text |-> <<"D","o","n","e">>]
    /\ trace[2].kind = "input"
    /\ session # <<>>

IsAnswer(e) == e.kind \in {"confirm", "input"}

\* C12: an agent turn of the Engineer that ends with no text ends the turn
\* loop: it is the last event of the loop, no input was requested after it
\* (every value _get_user_input returned was consumed before it, and the
\* pipeline is at no position of the loop), the transcript is what it was
\* before that turn, and engineer() returns a session carrying it.
C12_EmptyResponseEndsLoop ==
    \A i \in 1..Len(trace) :
        (trace[i].kind = "agent" /\ trace[i].text = EMPTY) =>
            /\ i = Len(trace)
            /\ pc \notin LoopPcs \cup ConfirmAskPcs \cup InputAskPcs
            /\ Len(inputs) = Len(SelectSeq(Before(i), IsAnswer))
            /\ conversation_history = ExpectedTranscript(Before(i))
            /\ pc = "eng_exit" \/ session # <<>>
            /\ session # <<>> => session[1].conversation = conversation_history

\* C12 witness: the first turn of the agent had no text; the session with an
\* empty transcript went on to Crystallize, which wrote the artifact.
C12_Witness ==
    /\ trace = <<[kind |-> "agent", text |-> EMPTY]>>
    /\ inputs = <<>>
    /\ session # <<>>
    /\ session[1].conversation = <<>>
    /\ spec_path # <<>>

\* C13 (as claimed): prompt_user resolves once, with the first line submitted
\* after it armed its wait object: once that object is set, the value the
\* suspended task will return does not change any more, whatever is submitted
\* before the task resumes.
C13_FirstSubmittedLineIsReturned ==
    [][(input_event # NoEvent /\ evSet[input_event])
          => input_value' = input_value]_vars

\* The input requests that are outstanding: armed, and their caller has not
\* resumed.
Outstanding == {t \in Tasks : cwait[t] # NoEvent}

\* C14: in a pipeline run at most one input request is outstanding: the
\* only request there can be is the one the pipeline task is suspended in
\* (or was, when it was cancelled), it is the one the surface holds, and a
\* request is armed only when none is outstanding.
C14_AtMostOneOutstandingRequest ==
    /\ [](/\ Cardinality(Outstanding) <= 1
          /\ Outstanding \subseteq {"pipeline"}
          /\ cwait["pipeline"] # NoEvent =>
                pc \in WaitPcs \/ cancelledAt \in WaitPcs
          /\ input_event # NoEvent => input_event = cwait["pipeline"])
    /\ [][(input_event' # input_event /\ input_event' # NoEvent)
              => (input_event = NoEvent /\ Outstanding = {})]_vars

\* C14 witness: the confirmation was answered and returned, and the normal
\* input request that follows it is now the outstanding one.
C14_Witness ==
    /\ pc = "eng_input_wait"
    /\ Outstanding = {"pipeline"}
    /\ Len(trace) = 2
    /\ trace[2].kind = "confirm"

\* C15: while the surface runs and the pipeline task is suspended, in
\* prompt_user or on the gateway (or in the sleep of demo mode), the surface
\* loop can take the quit action, at once or after the messages already
\* posted to it, each of which it can handle; the quit stops the surface
\* loop.
C15_QuitEnabledWhileSuspended ==
    (running /\ pc \in SuspendedPcs) =>
        /\ posted = <<>> => ENABLED (Quit /\ ~running')
        /\ posted # <<>> => ENABLED HandleAddMessage

\* C15 witness: the user quit while the pipeline task was suspended in the
\* prompt_user of the confirmation; the surface loop has ended.
C15_Witness ==
    /\ userQuit
    /\ ~running
    /\ cancelledAt = "eng_confirm_wait"

PhaseNames == {"explore", "engineer", "crystallize"}
IsErrorLine(line) == line = "error"
ErrorLines == Len(SelectSeq(activity_log, IsErrorLine))

\* C16: when a phase has failed and the pipeline task has ended, the failure
\* was caught by the except clause of run_pipeline and did not reach the
\* worker, the activity log holds a line for it, and the surface was not
\* stopped by it: it runs, unless the user has quit since, and while it runs
\* it accepts the quit action.
C16_PhaseFailureCaughtAndLogged ==
    (failedIn \in PhaseNames /\ pc = "done") =>
        /\ handled
        /\ workerExc = "none"
        /\ ErrorLines >= 1
        /\ running \/ userQuit
        /\ running => ENABLED (Quit /\ ~running')

\* C16 witness: the Engineer phase failed after one exchange with the human,
\* the pipeline task has ended and the surface still runs.
C16_Witness ==
    /\ failedIn = "engineer"
    /\ pc = "done"
    /\ running
    /\ Len(conversation_history) >= 2

\* The phases begun when the step named by failedIn is the one that failed.
PhasesUpTo(step) ==
    CASE step = "acquire" -> <<>>
      [] step = "explore" -> SubSeq(PhaseOrder, 1, 1)
      [] step = "engineer" -> SubSeq(PhaseOrder, 1, 2)
      [] OTHER -> PhaseOrder
AfterTryPcs == {"except", "finally", "done"}

\* C17: a failure is final. Once a step of the pipeline has failed, the
\* pipeline is in its except or finally clause or has ended; the phases
\* begun are those up to the failed one, each begun once, and no later one;
\* and from then on no phase is begun, nothing is sent to the gateway, no
\* gateway session is awaited and no result is produced.
C17_ErroredIsTerminal ==
    /\ [](failedIn # "none" =>
             /\ pc \in AfterTryPcs
             /\ phaseCalls = PhasesUpTo(failedIn)
             /\ crystallizeCalls = (IF failedIn = "crystallize" THEN 1 ELSE 0)
             /\ spec_path = <<>>)
    /\ [][failedIn # "none" =>
             /\ pc' \in AfterTryPcs
             /\ phaseCalls' = phaseCalls
             /\ crystallizeCalls' = crystallizeCalls
             /\ sent' = sent
             /\ <<analysis, session, spec_path>>' = <<analysis, session, spec_path>>]_vars

\* C17 witness: the Explore phase failed; the pipeline task has ended with
\* Explore as the only phase begun.
C17_Witness ==
    /\ failedIn = "explore"
    /\ pc = "done"
    /\ phaseCalls = <<"explore">>
    /\ running

\* C18 (as claimed): an Explore turn that yields no text is fatal: the
\* pipeline is in its except or finally clause or has ended, Explore is the
\* only phase begun, and nothing was sent to the gateway for the Engineer.
C18_EmptyExploreAborts ==
    (analysis # <<>> /\ analysis[1].summary = EMPTY) =>
        /\ pc \in AfterTryPcs
        /\ phaseCalls = <<"explore">>
        /\ sent = <<>>
        /\ crystallizeCalls = 0

\* C19: when the repository cannot be acquired (the local path does not
\* exist, or the clone fails) the pipeline does not start: update_phase was
\* never called and the surface shows its initial phase and status, no
\* gateway session is or was awaited, nothing was sent and no phase left a
\* result; and once the except clause is passed the activity log holds the
\* one line that reports the failure.
C19_NoAcquireNoPipeline ==
    failedIn = "acquire" =>
        /\ pc \in AfterTryPcs
        /\ phaseCalls = <<>>
        /\ current_phase = "explore"
        /\ agent_status = <<"Idle", "Ready">>
        /\ sent = <<>>
        /\ <<analysis, session, spec_path>> = <<<<>>, <<>>, <<>>>>
        /\ agentTurns = 0 /\ crystallizeCalls = 0
        /\ pc \in {"finally", "done"} => ErrorLines = 1

\* C19 witness: the local path does not exist; run_pipeline has returned
\* with the failure as the only line of the activity log.
C19_Witness ==
    /\ failedIn = "acquire"
    /\ args.repo = "local"
    /\ pc = "done"
    /\ activity_log = <<"error">>

\* C20: a fatal error of the pipeline puts exactly one line describing it
\* into the activity log: none before the failure is handled, one from then
\* on, for good, and none when nothing failed (the worker does not report it
\* a second time). The surface is not stopped by it: it runs until the user
\* quits, and while it runs it handles a submitted line and the quit action.
C20_OneErrorLine ==
    /\ ErrorLines =
          (IF failedIn # "none" /\ pc \in {"finally", "done"} THEN 1 ELSE 0)
    /\ (failedIn # "none" /\ pc = "done") =>
          /\ running \/ userQuit
          /\ running => ENABLED Submit /\ ENABLED (Quit /\ ~running')

\* C20 witness: the Crystallize phase failed on a cloned repository; the
\* pipeline task has ended, the log holds the cloning lines, the one error
\* line and the clean-up line after it, and the surface still runs.
C20_Witness ==
    /\ failedIn = "crystallize"
    /\ args.repo = "url"
    /\ pc = "done"
    /\ running
    /\ Last(activity_log) = "cleanup"
    /\ ErrorLines = 1

\* C21 (as claimed): when the pipeline task has ended and Crystallize has
\* not run to completion (it never started, or it failed or was cancelled
\* midway, so that no artifact path was returned), there is no file at the
\* output path.
C21_NoArtifactUnlessCrystallizeCompleted ==
    (pc = "done" /\ spec_path = <<>>) => artifact = "none"

IsDisplayCall(c) == c \in {"update_phase", "update_agent_status", "log_activity"}
InitialDisplay == <<"explore", <<"Idle", "Ready">>, <<>>>>

\* C22: update_phase, update_agent_status and log_activity called before
\* the surface is mounted return to their caller (each call can be made and
\* completes) and change nothing: the display is as constructed as long as
\* the surface is not mounted, whatever was called, and such a call changes
\* no other state of the surface or of its tasks either.
C22_DisplayCallsBeforeMount ==
    /\ [](~mounted =>
             /\ displayVars = InitialDisplay
             /\ Len(apiCalls) < MaxApiCalls =>
                   /\ ENABLED SurfUpdatePhase
                   /\ ENABLED SurfUpdateStatus
                   /\ ENABLED SurfLogActivity)
    /\ [][(~mounted /\ apiCalls' # apiCalls) =>
             /\ surfaceVars' = surfaceVars
             /\ taskVars' = taskVars
             /\ pipeVars' = pipeVars]_vars

\* C22 witness: log_activity was called before the mount and again after
\* it; the activity log holds the line of the second call only.
C22_Witness ==
    /\ mounted
    /\ apiCalls = <<"log_activity", "log_activity">>
    /\ activity_log = <<"note">>

\* C23: shutdown() is idempotent. Every call leaves the surface stopped,
\* and a call made when the surface is not running (a second call, or a
\* call before the surface runs) changes nothing of the surface, of its
\* tasks or of the pipeline: the state is the one the first call left.
C23_ShutdownIdempotent ==
    [][apiCalls' = Append(apiCalls, "shutdown") =>
          /\ ~running'
          /\ ~running =>
                /\ surfaceVars' = surfaceVars
                /\ taskVars' = taskVars
                /\ pipeVars' = pipeVars]_vars

\* C23 witness: shutdown() was called twice on a mounted surface, which is
\* stopped.
C23_Witness ==
    /\ mounted
    /\ ~running
    /\ apiCalls = <<"shutdown", "shutdown">>

\* C24: Crystallize starts only once engineer() has returned its session;
\* that session holds the transcript as the turn loop left it, the analysis
\* as Explore returned it, and the feature request; the prompt of
\* Crystallize is built from exactly these, and the initial prompt of the
\* Engineer from the same analysis; and from the moment the session exists
\* no step changes the transcript, the analysis or the session.
C24_CrystallizeReadsFinalSession ==
    /\ [](/\ crystallizeCalls > 0 =>
                session # <<>> /\ PhaseOfPc(pc) # "engineer"
          /\ session # <<>> =>
                session[1] = [conversation |-> conversation_history,
                              repo_analysis |-> analysis[1],
                              feature_request |-> FeatureRequest]
          /\ sent # <<>> =>
                sent[1] = InitialPrompt(analysis[1].summary, FeatureRequest)
          /\ crystallize_prompt # <<>> =>
                /\ crystallize_prompt[1].summary = analysis[1].summary
                /\ crystallize_prompt[1].feature_request = FeatureRequest
                /\ crystallize_prompt[1].conversation =
                      FormatConversation(conversation_history))
    /\ [][/\ analysis # <<>> => analysis' = analysis
          /\ session # <<>> =>
                /\ session' = session
                /\ conversation_history' = conversation_history
          /\ crystallize_prompt # <<>> =>
                crystallize_prompt' = crystallize_prompt]_vars

\* C24 witness: Crystallize has completed on a session of three turns and
\* a non-empty analysis.
C24_Witness ==
    /\ spec_path # <<>>
    /\ crystallize_prompt # <<>>
    /\ Len(session[1].conversation) = 3
    /\ analysis[1].summary # EMPTY

\* C25: the pipeline function is started once per surface: it has been
\* started exactly when the surface has been mounted, and no step starts
\* it when it has been started before, so the one pipeline task is never
\* joined or replaced by a second.
C25_PipelineStartedOnce ==
    /\ [](mounted <=> pc # "unstarted")
    /\ [][(pc' = "start" /\ pc # "start") => (pc = "unstarted" /\ ~mounted)]_vars
    /\ [][mounted => mounted']_vars

\* C25 witness: the one pipeline task has run all three phases to the end
\* on a surface that is still mounted and running.
C25_Witness ==
    /\ mounted /\ running
    /\ pc = "done"
    /\ phaseCalls = PhaseOrder
    /\ crystallizeCalls = 1
    /\ spec_path # <<>>

\* The block a turn is to be rendered as, written out: the role in capitals,
\* a colon, a space, the content.
ExpectedLabel(role) ==
    IF role = "assistant"
    THEN <<"A","S","S","I","S","T","A","N","T">>
    ELSE <<"U","S","E","R">>
ExpectedBlock(turn) == ExpectedLabel(turn.role) \o <<":", " ">> \o turn.content

\* Where the block of turn i starts in the rendering of history, counted
\* from 0, when consecutive blocks are separated by one blank line (two
\* newline characters).
RECURSIVE BlockStart(_, _)
BlockStart(history, i) ==
    IF i = 1 THEN 0
    ELSE BlockStart(history, i - 1) + Len(ExpectedBlock(history[i - 1])) + 2

\* text is the rendering of history: every turn once, in order, as its
\* block, with one blank line between consecutive blocks and nothing else.
IsRendering(text, history) ==
    LET n == Len(history)
    IN  /\ n = 0 => text = EMPTY
        /\ n > 0 =>
              Len(text) = BlockStart(history, n) + Len(ExpectedBlock(history[n]))
        /\ \A i \in 1..n :
              LET from == BlockStart(history, i)
                  block == ExpectedBlock(history[i])
              IN  /\ Len(text) >= from + Len(block)
                  /\ SubSeq(text, from + 1, from + Len(block)) = block
                  /\ i < n =>
                        /\ Len(text) >= from + Len(block) + 2
                        /\ text[from + Len(block) + 1] = "\n"
                        /\ text[from + Len(block) + 2] = "\n"

\* C26: the transcript section of the prompt of Crystallize renders every
\* turn of the session's transcript exactly once, in transcript order, as
\* "ROLE: content" with the role in capitals, consecutive blocks separated
\* by one blank line; an empty transcript is rendered as the empty string.
C26_TranscriptRendering ==
    crystallize_prompt # <<>> =>
        IsRendering(crystallize_prompt[1].conversation, session[1].conversation)

\* C26 witness: the prompt of Crystallize was built from a transcript of
\* four turns, user turns among them.
C26_Witness ==
    /\ crystallize_prompt # <<>>
    /\ Len(session[1].conversation) = 4
    /\ session[1].conversation[2].role = "user"
    /\ Len(crystallize_prompt[1].conversation) > 4 * 6

\* C27 (as claimed): for the same tool events, in the same order, a
\* Crystallizer writes the activity lines a RepoExplorer writes.
C27_CrystallizeLogsAsExplore == crystalLog = exploreLog

\* The contents of the user turns of a transcript, in order.
UserContents(history) ==
    LET turns == SelectSeq(history, IsUserTurn)
    IN  [i \in 1..Len(turns) |-> turns[i].content]

\* C28: what the Engineer has sent to the gateway is the initial prompt
\* followed by the contents of the user turns of the transcript, each once,
\* in transcript order, and nothing else: so the number of messages sent is
\* one plus the number of user turns. (Until the initial prompt is sent,
\* at the opening of the session, nothing is sent and the transcript is
\* empty.)
C28_SentIsInitialPlusUserTurns ==
    /\ sent = <<>> => conversation_history = <<>> /\ trace = <<>>
    /\ sent # <<>> =>
          /\ sent = <<InitialPrompt(analysis[1].summary, FeatureRequest)>>
                        \o UserContents(conversation_history)
          /\ Len(sent) = 1 + UserTurns(conversation_history)

\* C28 witness: a user turn was recorded and sent after the initial prompt,
\* and a blank line was given as well, which was neither.
C28_Witness ==
    /\ Len(sent) = 2
    /\ UserTurns(conversation_history) = 1
    /\ \E i \in 1..Len(trace) : trace[i].kind = "input" /\ trace[i].text = EMPTY

\* C29: the transcript starts with an agent turn when it is not empty, and
\* no user turn in it is followed by a user turn.
C29_NoTwoConsecutiveUserTurns ==
    /\ conversation_history # <<>> => conversation_history[1].role = "assistant"
    /\ \A i \in 1..(Len(conversation_history) - 1) :
          conversation_history[i].role = "user" =>
              conversation_history[i + 1].role = "assistant"

\* C29 witness: a transcript of five turns, agent and user in turn.
C29_Witness ==
    /\ Len(conversation_history) = 5
    /\ conversation_history[2].role = "user"
    /\ conversation_history[4].role = "user"

IsUserMessage(m) == m.role = "user"
\* The texts of the user messages handed to the conversation log, in order.
UserMessagesShown ==
    LET shown == SelectSeq(messages_log \o posted, IsUserMessage)
    IN  [i \in 1..Len(shown) |-> shown[i].content]
\* A human answer that add_message shows: an answer to the confirmation, or
\* an input that is recorded.
IsShownAnswer(e) ==
    \/ e.kind = "confirm"
    \/ e.kind = "input" /\ IsRecorded(e)
AnswersShown(events) ==
    LET kept == SelectSeq(events, IsShownAnswer)
    IN  [i \in 1..Len(kept) |-> kept[i].text]
IsRecordedInput(e) == e.kind = "input" /\ IsRecorded(e)
InputsRecorded(events) ==
    LET kept == SelectSeq(events, IsRecordedInput)
    IN  [i \in 1..Len(kept) |-> kept[i].text]

\* C30: every answer to the readiness confirmation is shown in the
\* conversation log as a user message, but is neither a turn of the
\* transcript nor a message to the gateway: the user turns of the transcript,
\* and the messages sent after the initial prompt, are the recorded inputs
\* alone. After an answer that is not affirmative the next thing asked of
\* the human is a fresh input. No user turn of the transcript is empty or a
\* session-ending token.
C30_ConfirmationShownNotRecorded ==
    /\ UserMessagesShown = AnswersShown(trace)
    /\ UserContents(conversation_history) = InputsRecorded(trace)
    /\ sent # <<>> => Tail(sent) = InputsRecorded(trace)
    /\ \A i \in 1..Len(trace) :
          (trace[i].kind = "confirm" /\ ~IsAffirmative(trace[i].text)) =>
              /\ i < Len(trace) => trace[i + 1].kind = "input"
              /\ i = Len(trace) => pc \in InputAskPcs \/ Stopped
    /\ \A i \in 1..Len(conversation_history) :
          conversation_history[i].role = "user" =>
              /\ conversation_history[i].content # EMPTY
              /\ Lower(conversation_history[i].content) \notin SessionEndingTokens

\* C30 witness: the confirmation was answered "no", which is shown and not
\* recorded, and the input asked for next was recorded and sent.
C30_Witness ==
    /\ \E i \in 1..(Len(trace) - 1) :
          /\ trace[i] = [kind |-> "confirm", text |-> T_no]
          /\ trace[i + 1].kind = "input" /\ IsRecorded(trace[i + 1])
    /\ Len(UserMessagesShown) = 2
    /\ UserTurns(conversation_history) = 1
    /\ Len(sent) = 2

\* s is t with some entries left out.
RECURSIVE IsSubsequence(_, _)
IsSubsequence(s, t) ==
    IF s = <<>> THEN TRUE
    ELSE IF t = <<>> THEN FALSE
    ELSE IF Head(s) = Head(t) THEN IsSubsequence(Tail(s), Tail(t))
    ELSE IsSubsequence(s, Tail(t))
\* The messages passed to add_message so far: those written to the
\* conversation log and those posted and not handled yet.
MessagesPassed == messages_log \o posted
\* A transcript turn as the message add_message is given for it.
TurnsAsMessages(history) ==
    [i \in 1..Len(history) |->
        Message(IF history[i].role = "assistant" THEN "agent" ELSE "user",
                history[i].content)]
IsConfirmEvent(e) == e.kind = "confirm"
IsMarkedResponse(e) == e.kind = "agent" /\ e.text # EMPTY /\ ReadyText(e.text)

\* C31: the transcript, turn by turn, is an order-preserving subsequence of
\* the messages passed to add_message; what add_message was given beyond the
\* transcript is one confirmation prompt for each response with a readiness
\* marker and one message for each confirmation answer; and once the
\* surface has handled what was posted, every transcript entry is written
\* in the conversation log.
C31_TranscriptSubsequenceOfMessages ==
    /\ IsSubsequence(TurnsAsMessages(conversation_history), MessagesPassed)
    /\ posted = <<>> =>
          IsSubsequence(TurnsAsMessages(conversation_history), messages_log)
    /\ Len(MessagesPassed) = Len(conversation_history)
                               + Len(SelectSeq(trace, IsMarkedResponse))
                               + Len(SelectSeq(trace, IsConfirmEvent))

\* C31 witness: three turns are in the transcript and in the conversation
\* log, which holds a confirmation prompt and its answer between them.
C31_Witness ==
    /\ posted = <<>>
    /\ Len(conversation_history) >= 3
    /\ Len(messages_log) >= Len(conversation_history) + 2
    /\ \E i \in 1..Len(trace) : trace[i].kind = "confirm"

\* Where the pipeline task is while the turn loop of the Engineer runs.
InTurnLoop == pc \in {"eng_recv"} \cup ConfirmAskPcs \cup InputAskPcs

\* C32: in demo mode the turn loop is always left, when every turn of the
\* agent completes; _get_user_input is called at most once more than there
\* are canned responses, whatever the agent answered; and a "done" that was
\* consumed, as an input or as an answer to the confirmation, is the last
\* event of the loop.
C32_DemoLoopTerminates ==
    /\ [](args.demo =>
            /\ Len(inputs) <= Len(demo_responses) + 1
            /\ \A i \in 1..Len(trace) :
                  (trace[i].kind \in {"confirm", "input"} /\ trace[i].text = T_done) =>
                      i = Len(trace) /\ ~InTurnLoop)
    /\ (args.demo /\ InTurnLoop) ~> ~InTurnLoop

\* C32 witness: a demo run left the loop on the "done" given as the answer
\* to the confirmation, after every canned response and one more request.
C32_Witness ==
    /\ args.demo
    /\ ~InTurnLoop
    /\ Len(inputs) = Len(demo_responses) + 1
    /\ Len(demo_responses) >= 1
    /\ trace # <<>>
    /\ trace[Len(trace)] = [kind |-> "confirm", text |-> T_done]

\* C33: while no input request is pending (_input_event is None) a line can
\* be submitted, and a step in which no task enters or leaves prompt_user,
\* the submission of a line included, leaves the input state as it is; and
\* a task that enters prompt_user starts from an empty value, so what a
\* later call returns was submitted after it was armed.
C33_LineWithoutRequestDiscarded ==
    /\ []((running /\ input_event = NoEvent) => ENABLED Submit)
    /\ [][(input_event = NoEvent /\ cwait' = cwait) => UNCHANGED inputVars]_vars
    /\ [][\A t \in Tasks :
            (cwait[t] = NoEvent /\ cwait'[t] # NoEvent) =>
                /\ input_value' = EMPTY
                /\ ~evSet'[cwait'[t]]]_vars

\* C33 witness: no request is pending, a line can be submitted, and an
\* earlier request has returned a line, which is still the stored value.
C33_Witness ==
    /\ running
    /\ input_event = NoEvent
    /\ Outstanding = {}
    /\ input_value # EMPTY
    /\ \E t \in Tasks : cret[t] = input_value

\* Where the pipeline task is while an operation outside the program runs
\* for it: the gateway, the human, the sleep of demo mode, the clone.
ExternalOperationPcs == SuspendedPcs \cup {"cloning"}

\* C34: while the surface runs and the pipeline task is in an external
\* operation, the clone of the repository included, the surface loop can
\* process a quit request, at once or after the messages already posted to
\* it: the pipeline task never keeps the thread until the operation is over.
C34_QuitProcessedDuringExternalOperations ==
    (running /\ pc \in ExternalOperationPcs) =>
        /\ posted = <<>> => ENABLED (Quit /\ ~running')
        /\ posted # <<>> => ENABLED HandleAddMessage

\* C35: the end of the pipeline task, with or without a failure, does not
\* stop the surface loop: when the task has ended and the user has not
\* quit, the surface runs and accepts the quit action, and a step that
\* stops the surface loop is the quit of the user, never a step of the
\* pipeline task.
C35_PipelineEndKeepsSurface ==
    /\ []((pc = "done" /\ ~userQuit) =>
            /\ running
            /\ posted = <<>> => ENABLED (Quit /\ ~running'))
    /\ [][(running /\ ~running') => (~userQuit /\ userQuit' /\ pc' \in {pc, "finally", "done"})]_vars

\* C35 witness: the pipeline task has ended, once with the artifact written
\* and the surface still running.
C35_Witness ==
    /\ pc = "done"
    /\ failedIn = "none"
    /\ spec_path # <<>>
    /\ running
    /\ ~userQuit
    /\ posted = <<>>
====
